---- MODULE Spec2Model ----
(***************************************************************************)
(* Model of simulations/GPTplot.py: a script that draws a token x layer    *)
(* grid, token labels, horizontal and vertical arrows and two columns of   *)
(* annotation labels on a matplotlib canvas and then shows the figure.     *)
(*                                                                         *)
(* Coordinates are kept in hundredths of a data unit, so that every float  *)
(* literal of the script (0.5, 0.3, 0.8, i / 20., 1.3, ...) is an integer. *)
(* Python lists are sequences; a 0-based Python index i is element i + 1.  *)
(***************************************************************************)
EXTENDS Integers, Sequences, FiniteSets, TLC

VARIABLES
    num_layers,           \* line 9
    tokens0,              \* the list literal assigned at line 10
    tokens,               \* the name `tokens`, rebound at line 28
    seq_length,           \* line 11
    accum_is,             \* lines 16-17
    accum_is_positions,   \* line 18
    accum_in,             \* line 20
    accum_in_positions,   \* line 21
    start_index,          \* lines 24, 29
    pc,                   \* position in the script
    layer,                \* outer loop variable of the nested loops
    i,                    \* inner loop variable / enumerate index
    patches,              \* ax.add_patch calls, in order
    texts,                \* ax.text calls, in order
    arrows,               \* ax.annotate calls, in order
    shows                 \* number of plt.show calls made

config == <<num_layers, tokens0, seq_length, accum_is, accum_is_positions,
            accum_in, accum_in_positions>>
canvas == <<patches, texts, arrows>>
vars == <<num_layers, tokens0, tokens, seq_length, accum_is, accum_is_positions,
          accum_in, accum_in_positions, start_index, pc, layer, i,
          patches, texts, arrows, shows>>

----------------------------------------------------------------------------
(* Bounds of the specifications that edit the literals.                    *)
MaxTokens == 2
MaxWidth == 2
MaxAccum == 2

----------------------------------------------------------------------------
(* The literals of the script.                                             *)

\* colors = plt.cm.tab20.colors: a tuple of 20 colours, here numbered 0..19.
TabColors == 20
colors == [k \in 1..TabColors |-> k - 1]

LitNumLayers == 12

PaletteSize == 12

LitTokens ==
    <<"[the]", "[ e]", "[iffel]", "[ tower]", "[ is]", "[ located]", "[ in]">>

LitAccumIs ==
    <<"is built high", "is built high", "is built high, in Paris",
      "is built high, in Paris", "is built high, in Paris",
      "is built high, in Paris">>

LitAccumIsPositionsRepeat == <<5, 6, 7, 7, 8, 9, 10>>
LitAccumIsPositions == <<5, 6, 7, 8, 9, 10, 11>>

LitAccumIn == <<"is in?", "is in?", "is in?", "is in Paris">>

LitAccumInPositionsShort == <<8, 9, 10>>
LitAccumInPositions == <<8, 9, 10, 11>>

\* seq_length = len(tokens)
SeqLengthShort(toks) == Len(toks) - 1
SeqLengthOf(toks) == Len(toks)

----------------------------------------------------------------------------
(* Python list operations.                                                  *)

\* lst[idx]: negative indices count from the end; outside -len..len-1 the
\* access raises IndexError (ok = FALSE).
PyGetItemClamp(lst, idx) ==
    IF Len(lst) = 0 THEN [ok |-> TRUE, val |-> 0]
    ELSE IF idx >= Len(lst) THEN [ok |-> TRUE, val |-> lst[Len(lst)]]
    ELSE [ok |-> TRUE, val |-> lst[idx + 1]]
PyGetItem(lst, idx) ==
    IF 0 <= idx /\ idx < Len(lst) THEN [ok |-> TRUE, val |-> lst[idx + 1]]
    ELSE IF -Len(lst) <= idx /\ idx < 0
         THEN [ok |-> TRUE, val |-> lst[Len(lst) + idx + 1]]
    ELSE [ok |-> FALSE, val |-> 0]

\* lst[-k:] for k >= 0. The slice start -k is normalised as Python does it:
\* -0 is 0 (the whole list), a negative start counts from the end and is
\* clamped to the front of the list.
PySliceFromNeg(lst, k) ==
    LET start == IF k = 0 THEN 0
                 ELSE IF Len(lst) - k < 0 THEN 0 ELSE Len(lst) - k
    IN  SubSeq(lst, start + 1, Len(lst))

----------------------------------------------------------------------------
(* The drawing calls.                                                       *)

BoxWidth == 80
BoxHeight == 20

\* patches.Rectangle((token + (1 - box_width) / 2, layer + (1 - box_height) / 2), ...)
GridRectSwapped(l, t, c) ==
    [x |-> 100 * l + (100 - BoxWidth) \div 2,
     y |-> 100 * t + (100 - BoxHeight) \div 2,
     w |-> BoxWidth, h |-> BoxHeight,
     edgecolor |-> c, facecolor |-> c, linestyle |-> "-"]
GridRect(l, t, c) ==
    [x |-> 100 * t + (100 - BoxWidth) \div 2,
     y |-> 100 * l + (100 - BoxHeight) \div 2,
     w |-> BoxWidth, h |-> BoxHeight,
     edgecolor |-> c, facecolor |-> c, linestyle |-> "-"]

\* ax.text(token_index + 0.5, 0.3, token, fontsize=18, color='red')
TokenLabel(token_index, token) ==
    [x |-> 100 * token_index + 50, y |-> 30, s |-> token,
     fontsize |-> 18, color |-> "red", bbox |-> "none"]

\* if target_token == '[the]': continue
SkipNever(target_token) == FALSE
SkipArrow(target_token) == target_token = "[the]"

\* ax.annotate('', xy=(to_index + 0.5, y_pos + i / 20.),
\*             xytext=(from_index + 0.5, y_pos + i / 20.), color='gray')
\* with y_pos = 0.8 + layer
HorizontalArrow(l, idx, from_index, to_index) ==
    [x |-> 100 * to_index + 50, y |-> 80 + 100 * l + 5 * idx,
     xtext |-> 100 * from_index + 50, ytext |-> 80 + 100 * l + 5 * idx,
     color |-> "gray"]

\* ax.annotate('', xy=(token + 0.5, layer + 1.3), xytext=(token + 0.5, layer + 0.7))
VerticalArrow(l, t) ==
    [x |-> 100 * t + 50, y |-> 100 * l + 130,
     xtext |-> 100 * t + 50, ytext |-> 100 * l + 70,
     color |-> "black"]

\* ax.text(4.5, token_index + 1.2, token, fontsize=16, color='white', bbox black)
IsLabel(token_index, token) ==
    [x |-> 450, y |-> 100 * token_index + 120, s |-> token,
     fontsize |-> 16, color |-> "white", bbox |-> "black"]

\* ax.text(6.5, token_index + 0.2, token, fontsize=16, color='white', bbox red)
InLabel(token_index, token) ==
    [x |-> 650, y |-> 100 * token_index + 20, s |-> token,
     fontsize |-> 16, color |-> "white", bbox |-> "red"]

\* ax.text(seq_length + 0.7, 11.65, ' => [Paris]', fontsize=16, color='red')
ParisLabel(width) ==
    [x |-> 100 * width + 70, y |-> 1165, s |-> " => [Paris]",
     fontsize |-> 16, color |-> "red", bbox |-> "none"]

\* patches.Rectangle((6.25, 0.75), 0.5, 0.5, linestyle='--', edgecolor='red')
DashedBox ==
    [x |-> 625, y |-> 75, w |-> 50, h |-> 50,
     edgecolor |-> "red", facecolor |-> "none", linestyle |-> "--"]

\* ax.text(6.5, 1.2, 'Vector\nMaschine', fontsize=12, color='red')
BoxLabel ==
    [x |-> 650, y |-> 120, s |-> "Vector\nMaschine",
     fontsize |-> 12, color |-> "red", bbox |-> "none"]

----------------------------------------------------------------------------
(* The order of the script's statements.                                    *)

PhaseAfterEarlyShow(p) ==
    CASE p = "align" -> "grid"
      [] p = "grid" -> "labels"
      [] p = "labels" -> "harrows"
      [] p = "harrows" -> "varrows"
      [] p = "varrows" -> "accum_is"
      [] p = "accum_is" -> "show"
      [] p = "accum_in" -> "extras"
      [] p = "extras" -> "done"
      [] p = "show" -> "accum_in"
      [] OTHER -> "done"
PhaseAfter(p) ==
    CASE p = "align" -> "grid"
      [] p = "grid" -> "labels"
      [] p = "labels" -> "harrows"
      [] p = "harrows" -> "varrows"
      [] p = "varrows" -> "accum_is"
      [] p = "accum_is" -> "accum_in"
      [] p = "accum_in" -> "extras"
      [] p = "extras" -> "show"
      [] p = "show" -> "done"
      [] OTHER -> "done"

Goto(p) == pc' = PhaseAfter(p) /\ layer' = 0 /\ i' = 0

----------------------------------------------------------------------------
(* Initial states.                                                          *)

Start ==
    /\ tokens = tokens0
    /\ start_index = 0
    /\ pc = "align"
    /\ layer = 0
    /\ i = 0
    /\ patches = <<>>
    /\ texts = <<>>
    /\ arrows = <<>>
    /\ shows = 0

\* The script as written (lines 9-21).
Init ==
    /\ num_layers = LitNumLayers
    /\ tokens0 = LitTokens
    /\ seq_length = SeqLengthOf(tokens0)
    /\ accum_is = LitAccumIs
    /\ accum_is_positions = LitAccumIsPositions
    /\ accum_in = LitAccumIn
    /\ accum_in_positions = LitAccumInPositions
    /\ Start

----------------------------------------------------------------------------
(* The script, one action per block; a loop action is one loop step.        *)

\* lines 23-29 (and the plot setup of lines 31-39, which draws nothing)
RightAlign ==
    /\ pc = "align"
    /\ LET si == seq_length - Len(tokens)
       IN  IF si < 0
           THEN /\ tokens' = PySliceFromNeg(tokens, seq_length)
                /\ start_index' = 0
           ELSE /\ tokens' = tokens
                /\ start_index' = si
    /\ Goto("align")
    /\ UNCHANGED <<config, canvas, shows>>

\* lines 41-53
DrawGrid ==
    /\ pc = "grid"
    /\ IF layer >= num_layers
       THEN Goto("grid") /\ UNCHANGED patches
       ELSE IF i >= seq_length
       THEN layer' = layer + 1 /\ i' = 0 /\ UNCHANGED <<pc, patches>>
       ELSE LET c == PyGetItem(colors, layer % PaletteSize)
            IN  IF c.ok
                THEN /\ patches' = Append(patches, GridRect(layer, i, c.val))
                     /\ i' = i + 1
                     /\ UNCHANGED <<pc, layer>>
                ELSE pc' = "raised" /\ UNCHANGED <<layer, i, patches>>
    /\ UNCHANGED <<config, tokens, start_index, texts, arrows, shows>>

\* lines 55-67
DrawTokenLabels ==
    /\ pc = "labels"
    /\ IF i >= Len(tokens)
       THEN Goto("labels") /\ UNCHANGED texts
       ELSE /\ texts' = Append(texts, TokenLabel(start_index + i, tokens[i + 1]))
            /\ i' = i + 1
            /\ UNCHANGED <<pc, layer>>
    /\ UNCHANGED <<config, tokens, start_index, patches, arrows, shows>>

\* lines 69-83
DrawHorizontalArrows ==
    /\ pc = "harrows"
    /\ IF layer >= num_layers - 1
       THEN Goto("harrows") /\ UNCHANGED arrows
       ELSE IF i >= Len(tokens)
       THEN layer' = layer + 1 /\ i' = 0 /\ UNCHANGED <<pc, arrows>>
       ELSE /\ IF SkipArrow(tokens[i + 1])
               THEN UNCHANGED arrows
               ELSE arrows' = Append(arrows,
                       HorizontalArrow(layer, i, 0, start_index + i))
            /\ i' = i + 1
            /\ UNCHANGED <<pc, layer>>
    /\ UNCHANGED <<config, tokens, start_index, patches, texts, shows>>

\* lines 84-92
DrawVerticalArrows ==
    /\ pc = "varrows"
    /\ IF layer >= num_layers
       THEN Goto("varrows") /\ UNCHANGED arrows
       ELSE IF i >= seq_length
       THEN layer' = layer + 1 /\ i' = 0 /\ UNCHANGED <<pc, arrows>>
       ELSE /\ arrows' = Append(arrows, VerticalArrow(layer, i))
            /\ i' = i + 1
            /\ UNCHANGED <<pc, layer>>
    /\ UNCHANGED <<config, tokens, start_index, patches, texts, shows>>

\* lines 94-105
DrawAccumIs ==
    /\ pc = "accum_is"
    /\ IF i >= Len(accum_is)
       THEN Goto("accum_is") /\ UNCHANGED texts
       ELSE LET token_index == PyGetItem(accum_is_positions, i)
            IN  IF token_index.ok
                THEN /\ texts' = Append(texts, IsLabel(token_index.val, accum_is[i + 1]))
                     /\ i' = i + 1
                     /\ UNCHANGED <<pc, layer>>
                ELSE pc' = "raised" /\ UNCHANGED <<layer, i, texts>>
    /\ UNCHANGED <<config, tokens, start_index, patches, arrows, shows>>

\* lines 107-118
DrawAccumIn ==
    /\ pc = "accum_in"
    /\ IF i >= Len(accum_in)
       THEN Goto("accum_in") /\ UNCHANGED texts
       ELSE LET token_index == PyGetItem(accum_in_positions, i)
            IN  IF token_index.ok
                THEN /\ texts' = Append(texts, InLabel(token_index.val, accum_in[i + 1]))
                     /\ i' = i + 1
                     /\ UNCHANGED <<pc, layer>>
                ELSE pc' = "raised" /\ UNCHANGED <<layer, i, texts>>
    /\ UNCHANGED <<config, tokens, start_index, patches, arrows, shows>>

\* lines 120-158
DrawExtras ==
    /\ pc = "extras"
    /\ texts' = texts \o <<ParisLabel(seq_length), BoxLabel>>
    /\ patches' = Append(patches, DashedBox)
    /\ Goto("extras")
    /\ UNCHANGED <<config, tokens, start_index, arrows, shows>>

\* lines 160-161
Show ==
    /\ pc = "show"
    /\ shows' = shows + 1
    /\ Goto("show")
    /\ UNCHANGED <<config, tokens, start_index, canvas>>

Next ==
    \/ RightAlign
    \/ DrawGrid
    \/ DrawTokenLabels
    \/ DrawHorizontalArrows
    \/ DrawVerticalArrows
    \/ DrawAccumIs
    \/ DrawAccumIn
    \/ DrawExtras
    \/ Show

Spec == Init /\ [][Next]_vars

\* The interpreter runs the script statement by statement until it ends.
FairSpec == Spec /\ WF_vars(Next)

----------------------------------------------------------------------------
(* The script with its literals edited: the right-align step and the       *)
(* annotation loops as functions of the lists they read.                   *)

Vocab == {"[the]", "[ e]"}
SeqsUpTo(S, n) == UNION {[1..k -> S] : k \in 0..n}
Prefixes(lst, n) == {SubSeq(lst, 1, k) : k \in 0..n}

\* Line 10 edited; seq_length still derived from it at line 11.
InitTokens ==
    /\ num_layers = LitNumLayers
    /\ tokens0 \in SeqsUpTo(Vocab, MaxTokens) \cup {LitTokens}
    /\ seq_length = SeqLengthOf(tokens0)
    /\ accum_is = LitAccumIs
    /\ accum_is_positions = LitAccumIsPositions
    /\ accum_in = LitAccumIn
    /\ accum_in_positions = LitAccumInPositions
    /\ Start

SpecTokens == InitTokens /\ [][Next]_vars

\* Lines 23-29 and 55-67 on any window width and token list.
InitAlign ==
    /\ num_layers = LitNumLayers
    /\ tokens0 \in SeqsUpTo(Vocab, MaxTokens)
    /\ seq_length \in 0..MaxWidth
    /\ accum_is = LitAccumIs
    /\ accum_is_positions = LitAccumIsPositions
    /\ accum_in = LitAccumIn
    /\ accum_in_positions = LitAccumInPositions
    /\ Start

SpecAlign == InitAlign /\ [][Next]_vars

\* Lines 16-21 edited to lists of any lengths.
InitAccum ==
    /\ num_layers = LitNumLayers
    /\ tokens0 = LitTokens
    /\ seq_length = SeqLengthOf(tokens0)
    /\ accum_is \in Prefixes(LitAccumIs, MaxAccum)
    /\ accum_is_positions \in Prefixes(LitAccumIsPositions, MaxAccum)
    /\ accum_in \in Prefixes(LitAccumIn, MaxAccum)
    /\ accum_in_positions \in Prefixes(LitAccumInPositions, MaxAccum)
    /\ Start

SpecAccum == InitAccum /\ [][Next]_vars

----------------------------------------------------------------------------
(* What is on the canvas, read back from the recorded calls.               *)

IsGridPatch(p) == p.linestyle = "-"
IsTokenLabel(t) == t.fontsize = 18
IsIsLabel(t) == t.bbox = "black"
IsInLabel(t) == t.bbox = "red"
IsHorizontal(a) == a.color = "gray"
IsVertical(a) == a.color = "black"

GridPatches == SelectSeq(patches, IsGridPatch)
TokenLabels == SelectSeq(texts, IsTokenLabel)
IsLabels == SelectSeq(texts, IsIsLabel)
InLabels == SelectSeq(texts, IsInLabel)
HArrows == SelectSeq(arrows, IsHorizontal)
VArrows == SelectSeq(arrows, IsVertical)

Count(sq, P(_)) == Cardinality({k \in 1..Len(sq) : P(sq[k])})

\* The (layer, token) cell a grid rectangle covers.
CellOf(p) == <<(p.y - (100 - BoxHeight) \div 2) \div 100,
               (p.x - (100 - BoxWidth) \div 2) \div 100>>
\* The column a label or an arrow end is centred on.
ColumnOf(x) == (x - 50) \div 100
\* The layer and the token index of a horizontal arrow.
HLayer(a) == (a.ytext - 80) \div 100
HIndex(a) == ((a.ytext - 80) % 100) \div 5
\* The layer a vertical arrow leaves.
VLayer(a) == (a.ytext - 70) \div 100
\* The rows of the annotation labels.
IsRow(t) == (t.y - 120) \div 100
InRow(t) == (t.y - 20) \div 100

GridDone == pc \notin {"align", "grid", "raised"}
LabelsDone == pc \notin {"align", "grid", "labels", "raised"}
HArrowsDone == pc \notin {"align", "grid", "labels", "harrows", "raised"}
VArrowsDone == pc \notin {"align", "grid", "labels", "harrows", "varrows", "raised"}
AccumDone == pc \in {"extras", "show", "done"}

NonThe == {k \in 1..Len(tokens) : tokens[k] # "[the]"}

----------------------------------------------------------------------------
(* Properties.                                                              *)

\* C1: after the grid-drawing pass the canvas holds num_layers * seq_length
\* grid rectangles, exactly one for each (layer, token) pair with layer in
\* 0..num_layers-1 and token in 0..seq_length-1, and at no time is a pair
\* drawn twice.
GridOnePerCell ==
    LET gp == GridPatches
        cells == {CellOf(gp[k]) : k \in 1..Len(gp)}
    IN  /\ Cardinality(cells) = Len(gp)
        /\ cells \subseteq (0..(num_layers - 1)) \X (0..(seq_length - 1))
        /\ GridDone =>
              /\ Len(gp) = num_layers * seq_length
              /\ cells = (0..(num_layers - 1)) \X (0..(seq_length - 1))
GridDrawn == pc = "labels" /\ Len(GridPatches) = 84 /\ Len(patches) = 84

\* C2: every annotation position list is as long as its paired text list.
AccumListsPaired ==
    /\ Len(accum_is_positions) = Len(accum_is)
    /\ Len(accum_in_positions) = Len(accum_in)

\* C3: the script never raises (every list index used is in range) and
\* eventually reaches the end of the script with the display call made.
TerminatesWithoutRaising ==
    /\ [](pc # "raised")
    /\ <>(pc = "done" /\ shows = 1)
ScriptFinished == pc = "done" /\ shows = 1 /\ Len(texts) = 19

LastN(lst, n) == SubSeq(lst, Len(lst) - n + 1, Len(lst))

AccumMismatch ==
    \/ Len(accum_is_positions) # Len(accum_is)
    \/ Len(accum_in_positions) # Len(accum_in)

\* C5 as stated: whenever a text list and its position list differ in
\* length, the run raises at the annotation loop and never reaches the
\* display call.
MismatchNeverShown == AccumMismatch => ~AccumDone /\ shows = 0

IsShort == Len(accum_is_positions) < Len(accum_is)
InShort == Len(accum_in_positions) < Len(accum_in)

\* C5 amended: the run raises exactly when a position list is shorter than
\* its text list: it then stops in the loop that reads that list, at the
\* first index past the end of the position list, and the display call is
\* never made; a position list longer than its text list raises nothing.
ShortPositionsRaise ==
    /\ (IsShort \/ InShort) => ~AccumDone /\ shows = 0
    /\ pc = "raised" =>
          /\ IsShort \/ InShort
          /\ IF IsShort
             THEN /\ i = Len(accum_is_positions)
                  /\ Len(IsLabels) = Len(accum_is_positions)
                  /\ Len(InLabels) = 0
             ELSE /\ i = Len(accum_in_positions)
                  /\ Len(IsLabels) = Len(accum_is)
                  /\ Len(InLabels) = Len(accum_in_positions)
    /\ pc = "accum_in" => ~IsShort /\ Len(IsLabels) = Len(accum_is)
    /\ AccumDone => Len(InLabels) = Len(accum_in)
RaisedOnShortList ==
    /\ pc = "raised"
    /\ Len(accum_is_positions) > Len(accum_is)
    /\ InShort

\* C6: horizontal arrows are drawn below the top layer only, and the
\* vertical arrows join consecutive layers: every token column gets one
\* vertical arrow per layer boundary (num_layers - 1 of them) and none
\* leaves the top layer.
ArrowDirections ==
    /\ \A k \in 1..Len(HArrows) : HLayer(HArrows[k]) < num_layers - 1
    /\ \A k \in 1..Len(VArrows) : VLayer(VArrows[k]) < num_layers - 1
    /\ VArrowsDone =>
          \A t \in 0..(seq_length - 1) :
             Cardinality({k \in 1..Len(VArrows) : ColumnOf(VArrows[k].x) = t})
                = num_layers - 1

\* C7: in the horizontal-arrow loop an arrow is drawn for (layer, i), layer
\* in 0..num_layers-2, iff tokens[i] is not '[the]'; every arrow starts at
\* column 0 and ends at column start_index + i; the loop draws
\* (num_layers - 1) * (number of tokens other than '[the]') arrows, none of
\* them from a column to itself.
HorizontalArrowsSkipThe ==
    LET ha == HArrows
        drawn == {<<HLayer(ha[k]), HIndex(ha[k])>> : k \in 1..Len(ha)}
        wanted == (0..(num_layers - 2)) \X {n - 1 : n \in NonThe}
    IN  /\ \A k \in 1..Len(ha) :
              /\ ColumnOf(ha[k].xtext) = 0
              /\ ColumnOf(ha[k].x) = start_index + HIndex(ha[k])
              /\ ha[k].y = ha[k].ytext
              /\ ColumnOf(ha[k].x) # ColumnOf(ha[k].xtext)
        /\ Cardinality(drawn) = Len(ha)
        /\ drawn \subseteq wanted
        /\ HArrowsDone =>
              /\ drawn = wanted
              /\ Len(ha) = (num_layers - 1) * Cardinality(NonThe)
HorizontalArrowsDrawn == pc = "varrows" /\ Len(HArrows) = 66

CanvasComplete ==
    /\ Len(patches) = num_layers * seq_length + 1
    /\ Len(texts) = Len(tokens) + Len(accum_is) + Len(accum_in) + 2
    /\ Len(arrows) = (num_layers - 1) * Cardinality(NonThe) + num_layers * seq_length

\* C8: the display call is made once, after every rectangle, label, arrow
\* and annotation has been drawn, and nothing is drawn after it.
ShowIsLast ==
    /\ shows \in {0, 1}
    /\ shows = 1 <=> pc = "done"
    /\ pc \in {"show", "done"} => CanvasComplete
Shown == shows = 1 /\ pc = "done" /\ Len(patches) = 85 /\ Len(arrows) = 150

\* C9: the rows read by the two annotation loops are layer indices in
\* 0..num_layers-1, and within each loop they strictly increase, so no two
\* labels of one style share a row.
AnnotationRows ==
    /\ \A k \in 1..Len(IsLabels) : IsRow(IsLabels[k]) \in 0..(num_layers - 1)
    /\ \A k \in 1..Len(InLabels) : InRow(InLabels[k]) \in 0..(num_layers - 1)
    /\ \A k \in 1..(Len(IsLabels) - 1) : IsRow(IsLabels[k]) < IsRow(IsLabels[k + 1])
    /\ \A k \in 1..(Len(InLabels) - 1) : InRow(InLabels[k]) < InRow(InLabels[k + 1])
    /\ \A k \in 1..Len(IsLabels) : IsRow(IsLabels[k]) = accum_is_positions[k]
    /\ \A k \in 1..Len(InLabels) : InRow(InLabels[k]) = accum_in_positions[k]
    /\ pc = "accum_in" => Len(IsLabels) = Len(accum_is)
    /\ AccumDone => Len(InLabels) = Len(accum_in)
AnnotationsDrawn == pc = "extras" /\ Len(IsLabels) = 6 /\ Len(InLabels) = 4

\* C10: with seq_length = len(tokens) the right-align step takes start_index
\* to 0 without truncating, leaves the token list as it was, and the label
\* loop draws token k at column k, one label for every grid column.
AlignIsIdentity ==
    /\ seq_length - Len(tokens0) = 0
    /\ pc # "align" =>
          /\ start_index = 0
          /\ tokens = tokens0
          /\ \A k \in 1..Len(TokenLabels) :
                /\ ColumnOf(TokenLabels[k].x) = k - 1
                /\ TokenLabels[k].s = tokens0[k]
          /\ LabelsDone =>
                \A t \in 0..(seq_length - 1) :
                   Cardinality({k \in 1..Len(TokenLabels) :
                                   ColumnOf(TokenLabels[k].x) = t}) = 1
AllColumnsLabelled ==
    /\ pc = "harrows"
    /\ Len(tokens0) >= 2
    /\ Len(TokenLabels) = Len(tokens0)

====
